---- MODULE Spec2Model ----
(***************************************************************************)
(* calcrs: a command line calculator.  main() runs one expression text     *)
(* through lexer::tokenize, parser::parse and evaluator::evaluate.         *)
(*                                                                         *)
(* Characters are one-character strings, a text is a sequence of them.     *)
(* An f64 is held as an exact fraction <<n, d>> (d > 0, lowest terms);     *)
(* <<0, 0>> stands for an f64 the model does not track exactly (NaN, an    *)
(* infinity, a rounded or transcendental result).                          *)
(***************************************************************************)
EXTENDS Integers, Sequences, FiniteSets, TLC

VARIABLES pc, input, lexed, parsed, result

vars == <<pc, input, lexed, parsed, result>>

RECURSIVE Gcd(_, _)
RECURSIVE DigitsValue(_, _)
RECURSIVE Pow10(_)
RECURSIVE RunEnd(_, _, _)
RECURSIVE tokenize_loop(_, _, _)
RECURSIVE parse_expression(_, _)
RECURSIVE parse_expression_loop(_, _, _)
RECURSIVE parse_term(_, _)
RECURSIVE parse_term_loop(_, _, _)
RECURSIVE parse_factor(_, _)
RECURSIVE unary_minus(_, _)
RECURSIVE parse_unary_op(_, _, _)
RECURSIVE parse_binary_op(_, _, _)
RECURSIVE IntPow(_, _)
RECURSIVE ISqrt(_, _)
RECURSIVE IsPow2(_)
RECURSIVE evaluate(_, _)
RECURSIVE Render(_)
RECURSIVE Concat(_)
RECURSIVE ChainsOf(_)
RECURSIVE Minuses(_)
RECURSIVE LeftFold(_)
RECURSIVE Subtrees(_)
RECURSIVE Scan(_, _, _, _)
RECURSIVE LeadingMinuses(_, _)
RECURSIVE Nest(_, _)
RECURSIVE LetterRunEnd(_, _, _)

(***************************************************************************)
(* Character classes of lexer.rs                                           *)
(***************************************************************************)
Digits == {"0", "1", "2", "3", "4", "5", "6", "7", "8", "9"}

DigitVal(c) ==
    CASE c = "0" -> 0 [] c = "1" -> 1 [] c = "2" -> 2 [] c = "3" -> 3
      [] c = "4" -> 4 [] c = "5" -> 5 [] c = "6" -> 6 [] c = "7" -> 7
      [] c = "8" -> 8 [] c = "9" -> 9

\* 'a'..='z'
Lowercase ==
    {"a", "b", "c", "d", "e", "f", "g", "h", "i", "j", "k", "l", "m",
     "n", "o", "p", "q", "r", "s", "t", "u", "v", "w", "x", "y", "z"}

\* the letters char::is_alphabetic accepts beyond 'a'..='z'
OtherAlphabetic ==
    {"A", "B", "C", "D", "E", "F", "G", "H", "I", "J", "K", "L", "M",
     "N", "O", "P", "Q", "R", "S", "T", "U", "V", "W", "X", "Y", "Z"}

is_alphabetic(c) == c \in Lowercase \cup OtherAlphabetic

is_digit(c) == c \in Digits

(***************************************************************************)
(* Tokens (enum Token).  Number carries its f64 payload.                   *)
(***************************************************************************)
Tok(t) == [type |-> t, val |-> <<0, 1>>]

Number(v) == [type |-> "Number", val |-> v]

SingleChars == {"+", "-", "*", "/", "(", ")", ","}

SingleCharToken(c) ==
    CASE c = "+" -> Tok("Plus")
      [] c = "-" -> Tok("Minus")
      [] c = "*" -> Tok("Multiply")
      [] c = "/" -> Tok("Divide")
      [] c = "(" -> Tok("LeftParen")
      [] c = ")" -> Tok("RightParen")
      [] c = "," -> Tok("Comma")

FunctionNames ==
    { <<"c", "o", "s">>, <<"s", "i", "n">>, <<"t", "a", "n">>,
      <<"a", "c", "o", "s">>, <<"a", "s", "i", "n">>, <<"a", "t", "a", "n">>,
      <<"s", "q", "r", "t">>, <<"p", "o", "w">> }

IdentifierToken(w) ==
    CASE w = <<"c", "o", "s">> -> Tok("Cos")
      [] w = <<"s", "i", "n">> -> Tok("Sin")
      [] w = <<"t", "a", "n">> -> Tok("Tan")
      [] w = <<"a", "c", "o", "s">> -> Tok("Acos")
      [] w = <<"a", "s", "i", "n">> -> Tok("Asin")
      [] w = <<"a", "t", "a", "n">> -> Tok("Atan")
      [] w = <<"s", "q", "r", "t">> -> Tok("Sqrt")
      [] w = <<"p", "o", "w">> -> Tok("Pow")

(***************************************************************************)
(* str::parse::<f64>() on a text of digits and '.' that starts with a      *)
(* digit: at most one '.' is a float literal, more is a ParseFloatError.   *)
(***************************************************************************)
Abs(n) == IF n < 0 THEN -n ELSE n

Gcd(a, b) == IF b = 0 THEN a ELSE Gcd(b, a % b)

Frac(n, d) ==
    LET g == Gcd(Abs(n), Abs(d))
        s == IF d < 0 THEN -1 ELSE 1
    IN  <<(s * n) \div g, (s * d) \div g>>

Pow10(k) == IF k = 0 THEN 1 ELSE 10 * Pow10(k - 1)

DigitsValue(s, acc) ==
    IF s = <<>> THEN acc ELSE DigitsValue(Tail(s), 10 * acc + DigitVal(Head(s)))

DotCount(s) == Cardinality({i \in 1..Len(s) : s[i] = "."})

ParseFloat(s) ==
    LET ds == SelectSeq(s, is_digit)
        dot == CHOOSE i \in 1..Len(s) : s[i] = "."
        fracLen == IF DotCount(s) = 0 THEN 0 ELSE Len(s) - dot
    IN  Frac(DigitsValue(ds, 0), Pow10(fracLen))

(***************************************************************************)
(* tokenize: the outcome is the token vector, or the panic that ends it.   *)
(***************************************************************************)
LexOk(tokens) == [kind |-> "ok", tokens |-> tokens, detail |-> <<>>]

LexPanic(kind, detail) == [kind |-> kind, tokens |-> <<>>, detail |-> detail]

\* the identifier loop going on over 'a'..='z' only
RunEndLowercase(text, i, more) ==
    IF i < Len(text)
       /\ (IF more = 1
           THEN is_digit(text[i + 1]) \/ text[i + 1] = "."
           ELSE text[i + 1] \in Lowercase)
    THEN RunEnd(text, i + 1, more)
    ELSE i

\* last index of the run that starts at i and goes on while `more` accepts the
\* peeked character: more = 1 for the numeral loop, 2 for the identifier loop
RunEnd(text, i, more) ==
    IF i < Len(text)
       /\ (IF more = 1
           THEN is_digit(text[i + 1]) \/ text[i + 1] = "."
           ELSE is_alphabetic(text[i + 1]))
    THEN RunEnd(text, i + 1, more)
    ELSE i

\* the scan stopping at the character, with the tokens pushed so far
invalid_character_partial(tokens, c) == LexOk(tokens)

\* _ => panic!("Invalid character: {}", c): the tokens pushed so far are lost
invalid_character(tokens, c) == LexPanic("InvalidCharacter", <<c>>)

tokenize_loop(text, i, tokens) ==
    IF i > Len(text) THEN LexOk(tokens)
    ELSE LET c == text[i] IN
      CASE is_digit(c) ->
             LET e == RunEnd(text, i, 1)
                 number == SubSeq(text, i, e)
             IN  IF DotCount(number) <= 1
                 THEN tokenize_loop(text, e + 1, Append(tokens, Number(ParseFloat(number))))
                 ELSE LexPanic("ParseFloatError", number)
        [] c \in SingleChars ->
             tokenize_loop(text, i + 1, Append(tokens, SingleCharToken(c)))
        [] c \in Lowercase ->
             LET e == RunEnd(text, i, 2)
                 identifier == SubSeq(text, i, e)
             IN  IF identifier \in FunctionNames
                 THEN tokenize_loop(text, e + 1, Append(tokens, IdentifierToken(identifier)))
                 ELSE LexPanic("UnknownIdentifier", identifier)
        [] c = " " -> tokenize_loop(text, i + 1, tokens)
        [] OTHER -> invalid_character(tokens, c)

tokenize(text) == tokenize_loop(text, 1, <<>>)

(***************************************************************************)
(* Expression trees (enum Expression) and the recursive descent parser.    *)
(* The Peekable iterator is the pair (toks, pos): pos is the index of the  *)
(* token iter.next() would return, Len(toks) + 1 once it is exhausted.     *)
(***************************************************************************)
ENumber(v) == [node |-> "Number", val |-> v]

BinaryOp(l, op, r) == [node |-> "BinaryOp", left |-> l, op |-> op, right |-> r]

UnaryOp(op, e) == [node |-> "UnaryOp", op |-> op, expr |-> e]

NoExpr == [node |-> "None"]

POk(e, pos) == [ok |-> TRUE, expr |-> e, err |-> "", pos |-> pos]

PErr(msg, pos) == [ok |-> FALSE, expr |-> NoExpr, err |-> msg, pos |-> pos]

\* iter.peek() / iter.next(): the token at pos, or None
AtEnd(toks, pos) == pos > Len(toks)

TypeAt(toks, pos) == IF AtEnd(toks, pos) THEN "None" ELSE toks[pos].type

\* iter.next() moves the cursor unless the iterator is exhausted
Advance(toks, pos) == IF AtEnd(toks, pos) THEN pos ELSE pos + 1

UnaryFunctions == {"Cos", "Acos", "Sin", "Asin", "Tan", "Atan", "Sqrt"}

\* the loop of parse_expression folding to the right instead
parse_expression_loop_right(toks, left, pos) ==
    IF TypeAt(toks, pos) \in {"Plus", "Minus"}
    THEN LET right == parse_expression(toks, pos + 1)
         IN  IF ~right.ok THEN right
             ELSE POk(BinaryOp(left, toks[pos].type, right.expr), right.pos)
    ELSE POk(left, pos)

parse_expression_loop(toks, left, pos) ==
    IF TypeAt(toks, pos) \in {"Plus", "Minus"}
    THEN LET right == parse_term(toks, pos + 1)
         IN  IF ~right.ok THEN right
             ELSE parse_expression_loop(toks, BinaryOp(left, toks[pos].type, right.expr),
                                        right.pos)
    ELSE POk(left, pos)

parse_expression(toks, pos) ==
    LET left == parse_term(toks, pos)
    IN  IF ~left.ok THEN left ELSE parse_expression_loop(toks, left.expr, left.pos)

parse_term_loop(toks, left, pos) ==
    IF TypeAt(toks, pos) \in {"Multiply", "Divide"}
    THEN LET right == parse_factor(toks, pos + 1)
         IN  IF ~right.ok THEN right
             ELSE parse_term_loop(toks, BinaryOp(left, toks[pos].type, right.expr),
                                  right.pos)
    ELSE POk(left, pos)

\* parse_term without its own loop: '*' and '/' handled at no level
parse_term_flat(toks, pos) == parse_factor(toks, pos)

parse_term(toks, pos) ==
    LET left == parse_factor(toks, pos)
    IN  IF ~left.ok THEN left ELSE parse_term_loop(toks, left.expr, left.pos)

\* the unary minus taking a whole term as its operand
unary_minus_term(toks, pos) ==
    LET e == parse_term(toks, pos)
    IN  IF ~e.ok THEN e ELSE POk(UnaryOp("Minus", e.expr), e.pos)

\* Some(Token::Minus) => UnaryOp(Token::Minus, parse_factor(iter)?)
unary_minus(toks, pos) ==
    LET e == parse_factor(toks, pos)
    IN  IF ~e.ok THEN e ELSE POk(UnaryOp("Minus", e.expr), e.pos)

\* the end of the input read as a default operand
end_of_input_default(pos) == POk(ENumber(<<0, 1>>), pos)

\* None => Err("Unexpected end of input")
end_of_input(pos) == PErr("Unexpected end of input", pos)

parse_factor(toks, pos) ==
    LET t == TypeAt(toks, pos)
        next == Advance(toks, pos)
    IN  CASE t = "Number" -> POk(ENumber(toks[pos].val), next)
          [] t = "Minus" -> unary_minus(toks, next)
          [] t = "LeftParen" ->
               LET e == parse_expression(toks, next)
               IN  IF ~e.ok THEN e
                   ELSE IF TypeAt(toks, e.pos) = "RightParen"
                        THEN POk(e.expr, e.pos + 1)
                        ELSE PErr("Expected right parenthese", Advance(toks, e.pos))
          [] t \in UnaryFunctions -> parse_unary_op(toks, next, t)
          [] t = "Pow" -> parse_binary_op(toks, next, t)
          [] t = "None" -> end_of_input(next)
          [] OTHER -> PErr("Unexpected token", next)

parse_unary_op(toks, pos, op) ==
    IF op = "Minus"
    THEN LET e == parse_factor(toks, pos)
         IN  IF ~e.ok THEN e ELSE POk(UnaryOp(op, e.expr), e.pos)
    ELSE IF TypeAt(toks, pos) = "LeftParen"
         THEN LET e == parse_expression(toks, pos + 1)
              IN  IF ~e.ok THEN e
                  ELSE IF TypeAt(toks, e.pos) = "RightParen"
                       THEN POk(UnaryOp(op, e.expr), e.pos + 1)
                       ELSE PErr("Expected right parenthese", Advance(toks, e.pos))
         ELSE PErr("Expected left parenthese", Advance(toks, pos))

\* pow dispatched to the one-argument helper: the node gets the wrong arity
parse_binary_op_as_unary(toks, pos, op) == parse_unary_op(toks, pos, op)

parse_binary_op(toks, pos, op) ==
    IF TypeAt(toks, pos) = "LeftParen"
    THEN LET left == parse_expression(toks, pos + 1)
         IN  IF ~left.ok THEN left
             ELSE IF TypeAt(toks, left.pos) = "Comma"
                  THEN LET right == parse_expression(toks, left.pos + 1)
                       IN  IF ~right.ok THEN right
                           ELSE IF TypeAt(toks, right.pos) = "RightParen"
                                THEN POk(BinaryOp(left.expr, op, right.expr), right.pos + 1)
                                ELSE PErr("Expected right parenthese",
                                          Advance(toks, right.pos))
                  ELSE PErr("Expected comma", Advance(toks, left.pos))
    ELSE PErr("Expected left parenthese", Advance(toks, pos))

\* parse: the cursor left behind is kept in the outcome (pos)
parse(toks) == parse_expression(toks, 1)

(***************************************************************************)
(* f64 arithmetic.  A value <<n, d>> with d a power of two and both parts  *)
(* within MaxMag is an f64 held exactly, and an operation whose exact      *)
(* result is such a value returns it (IEEE 754 rounds only what it cannot  *)
(* represent).  Every other result is Untracked: the model does not say    *)
(* which f64 it is.                                                        *)
(***************************************************************************)
MaxMag == 16384

Untracked == <<0, 0>>

IsPow2(d) == IF d = 1 THEN TRUE ELSE IF d % 2 = 1 THEN FALSE ELSE IsPow2(d \div 2)

Representable(v) ==
    /\ v[2] > 0
    /\ v[2] <= MaxMag
    /\ Abs(v[1]) <= MaxMag
    /\ IsPow2(v[2])

Track(n, d) == LET v == Frac(n, d) IN IF Representable(v) THEN v ELSE Untracked

Both(a, b) == Representable(a) /\ Representable(b)

FAdd(a, b) == IF Both(a, b) THEN Track(a[1] * b[2] + b[1] * a[2], a[2] * b[2]) ELSE Untracked

FSub(a, b) == IF Both(a, b) THEN Track(a[1] * b[2] - b[1] * a[2], a[2] * b[2]) ELSE Untracked

FMul(a, b) == IF Both(a, b) THEN Track(a[1] * b[1], a[2] * b[2]) ELSE Untracked

\* a / b for b that compared unequal to 0.0
FDiv(a, b) ==
    IF Both(a, b) /\ b[1] # 0 THEN Track(a[1] * b[2], a[2] * b[1]) ELSE Untracked

FNeg(a) == IF a[2] # 0 THEN <<-a[1], a[2]>> ELSE Untracked

\* right_val == 0.0: decided for a value held as a fraction (a literal that is
\* no f64 is the nearest f64, zero only if the literal is); for an untracked
\* value the comparison may go either way (zeroUntracked)
IsZero(v, zeroUntracked) == IF v[2] # 0 THEN v[1] = 0 ELSE zeroUntracked

\* b^k for an integer k >= 0, while it stays within MaxMag
IntPow(b, k) ==
    IF k = 0 THEN <<1, 1>>
    ELSE LET r == IntPow(b, k - 1) IN FMul(r, b)

\* f64::powf at the points where the result is exact
FPow(a, b) ==
    IF b = <<0, 1>> \/ a = <<1, 1>> THEN <<1, 1>>
    ELSE IF Both(a, b) /\ b[2] = 1 /\ b[1] > 0 THEN IntPow(a, b[1])
    ELSE IF Both(a, b) /\ b[2] = 1 /\ b[1] < 0 /\ a[1] # 0
         THEN FDiv(<<1, 1>>, IntPow(a, -b[1]))
    ELSE Untracked

\* the integer square root of n, searched upwards from r
ISqrt(n, r) == IF r * r >= n THEN r ELSE ISqrt(n, r + 1)

\* f64::sqrt is correctly rounded: exact on the squares
FSqrt(a) ==
    IF Representable(a) /\ a[1] >= 0
    THEN LET rn == ISqrt(a[1], 0)
             rd == ISqrt(a[2], 1)
         IN  IF rn * rn = a[1] /\ rd * rd = a[2] THEN <<rn, rd>> ELSE Untracked
    ELSE Untracked

\* the std trigonometric functions, at the arguments where they are exact
FCos(a) == IF a = <<0, 1>> THEN <<1, 1>> ELSE Untracked

FAcos(a) == IF a = <<1, 1>> THEN <<0, 1>> ELSE Untracked

FSin(a) == IF a = <<0, 1>> THEN <<0, 1>> ELSE Untracked

FAsin(a) == IF a = <<0, 1>> THEN <<0, 1>> ELSE Untracked

FTan(a) == IF a = <<0, 1>> THEN <<0, 1>> ELSE Untracked

FAtan(a) == IF a = <<0, 1>> THEN <<0, 1>> ELSE Untracked

(***************************************************************************)
(* evaluate: Ok(f64) or Err(EvaluationError)                               *)
(***************************************************************************)
EOk(v) == [ok |-> TRUE, val |-> v, err |-> ""]

EErr(e) == [ok |-> FALSE, val |-> Untracked, err |-> e]

\* the division without the zero test
divide_unchecked(left_val, right_val, zeroUntracked) == EOk(FDiv(left_val, right_val))

\* Token::Divide => DivisionByZero if right_val == 0.0, else the quotient
divide(left_val, right_val, zeroUntracked) ==
    IF IsZero(right_val, zeroUntracked)
    THEN EErr("DivisionByZero")
    ELSE EOk(FDiv(left_val, right_val))

evaluate(ast, zeroUntracked) ==
    CASE ast.node = "Number" -> EOk(ast.val)
      [] ast.node = "BinaryOp" ->
           LET left == evaluate(ast.left, zeroUntracked) IN
           IF ~left.ok THEN left
           ELSE LET right == evaluate(ast.right, zeroUntracked) IN
                IF ~right.ok THEN right
                ELSE CASE ast.op = "Plus" -> EOk(FAdd(left.val, right.val))
                       [] ast.op = "Minus" -> EOk(FSub(left.val, right.val))
                       [] ast.op = "Multiply" -> EOk(FMul(left.val, right.val))
                       [] ast.op = "Divide" ->
                            divide(left.val, right.val, zeroUntracked)
                       [] ast.op = "Pow" -> EOk(FPow(left.val, right.val))
                       [] OTHER -> EErr("InvalidOperation")
      [] ast.node = "UnaryOp" ->
           LET v == evaluate(ast.expr, zeroUntracked) IN
           IF ~v.ok THEN v
           ELSE CASE ast.op = "Minus" -> EOk(FNeg(v.val))
                  [] ast.op = "Cos" -> EOk(FCos(v.val))
                  [] ast.op = "Acos" -> EOk(FAcos(v.val))
                  [] ast.op = "Sin" -> EOk(FSin(v.val))
                  [] ast.op = "Asin" -> EOk(FAsin(v.val))
                  [] ast.op = "Tan" -> EOk(FTan(v.val))
                  [] ast.op = "Atan" -> EOk(FAtan(v.val))
                  [] ast.op = "Sqrt" -> EOk(FSqrt(v.val))
                  [] OTHER -> EErr("InvalidOperation")

(***************************************************************************)
(* The expression texts main() is run on.  Token sequences are written     *)
(* out as text (Render), so that every token sequence the parser sees is   *)
(* one tokenize produced.                                                  *)
(***************************************************************************)
MaxLenAll == 2

MaxOps == 2

MaxMinus == 2

MaxChunks == 3

DigitChar(n) ==
    CASE n = 0 -> "0" [] n = 1 -> "1" [] n = 2 -> "2" [] n = 3 -> "3"
      [] n = 4 -> "4" [] n = 5 -> "5" [] n = 6 -> "6" [] n = 7 -> "7"
      [] n = 8 -> "8" [] n = 9 -> "9"

Spelling(t) ==
    CASE t.type = "Number" -> <<DigitChar(t.val[1])>>
      [] t.type = "Plus" -> <<"+">>
      [] t.type = "Minus" -> <<"-">>
      [] t.type = "Multiply" -> <<"*">>
      [] t.type = "Divide" -> <<"/">>
      [] t.type = "LeftParen" -> <<"(">>
      [] t.type = "RightParen" -> <<")">>
      [] t.type = "Comma" -> <<",">>
      [] t.type = "Cos" -> <<"c", "o", "s">>
      [] t.type = "Sin" -> <<"s", "i", "n">>
      [] t.type = "Tan" -> <<"t", "a", "n">>
      [] t.type = "Acos" -> <<"a", "c", "o", "s">>
      [] t.type = "Asin" -> <<"a", "s", "i", "n">>
      [] t.type = "Atan" -> <<"a", "t", "a", "n">>
      [] t.type = "Sqrt" -> <<"s", "q", "r", "t">>
      [] t.type = "Pow" -> <<"p", "o", "w">>

\* the tokens' spellings, separated by single spaces
Render(toks) ==
    IF toks = <<>> THEN <<>>
    ELSE IF Len(toks) = 1 THEN Spelling(toks[1])
    ELSE Spelling(toks[1]) \o <<" ">> \o Render(Tail(toks))

Concat(ss) == IF ss = <<>> THEN <<>> ELSE Head(ss) \o Concat(Tail(ss))

NumTokens == {Number(<<n, 1>>) : n \in 0..2}

ArithOps == {Tok("Plus"), Tok("Minus"), Tok("Multiply"), Tok("Divide")}

FunctionTokens ==
    {Tok(f) : f \in {"Cos", "Acos", "Sin", "Asin", "Tan", "Atan", "Sqrt", "Pow"}}

AllTokens ==
    NumTokens \cup ArithOps \cup FunctionTokens
      \cup {Tok("LeftParen"), Tok("RightParen"), Tok("Comma")}

\* every token sequence of at most MaxLenAll tokens
AllSeqs == UNION {[1..k -> AllTokens] : k \in 0..MaxLenAll}

\* n0 op n1 op ... with k operators
ChainsOf(k) ==
    IF k = 0 THEN {<<n>> : n \in NumTokens}
    ELSE {c \o <<op, n>> : c \in ChainsOf(k - 1), op \in ArithOps, n \in NumTokens}

Chains == UNION {ChainsOf(k) : k \in 0..MaxOps}

Minuses(k) == IF k = 0 THEN <<>> ELSE <<Tok("Minus")>> \o Minuses(k - 1)

\* -..- a  and  -..- a op -..- b
MinusForms ==
    {Minuses(j) \o <<a>> : j \in 0..MaxMinus, a \in NumTokens}
      \cup {Minuses(j) \o <<a, op>> \o Minuses(k) \o <<b>> :
               j \in 0..MaxMinus, k \in 0..MaxMinus, a \in NumTokens,
               b \in NumTokens, op \in ArithOps}

Simple == {<<a>> : a \in NumTokens}
            \cup {<<a, op, b>> : a \in NumTokens, op \in ArithOps, b \in NumTokens}

Grouped == {<<Tok("LeftParen")>> \o e \o <<Tok("RightParen")>> : e \in Simple}

Calls ==
    {<<f, Tok("LeftParen"), a, Tok("RightParen")>> :
        f \in FunctionTokens \ {Tok("Pow")}, a \in NumTokens}
      \cup {<<Tok("Sin"), Tok("LeftParen")>> \o e \o <<Tok("RightParen")>> : e \in Simple}

PowCalls ==
    {<<Tok("Pow"), Tok("LeftParen")>> \o e \o <<Tok("Comma"), a, Tok("RightParen")>> :
        e \in Simple, a \in NumTokens}
      \cup {<<Tok("Pow"), Tok("LeftParen"), a, Tok("Comma")>> \o e \o <<Tok("RightParen")>> :
               e \in Simple, a \in NumTokens}

\* pow called with a single argument
ShortPowCalls ==
    {<<Tok("Pow"), Tok("LeftParen"), a, Tok("RightParen")>> : a \in NumTokens}

Factors == Grouped \cup Calls \cup PowCalls

Sentences ==
    Factors
      \cup {f \o <<op, a>> : f \in Factors, op \in ArithOps, a \in NumTokens}
      \cup {<<a, op>> \o f : f \in Factors, op \in ArithOps, a \in NumTokens}

\* the sentences cut off after any token
Truncations == UNION {{SubSeq(s, 1, k) : k \in 0..Len(s)} : s \in Sentences}

\* a factor with one token left out
Omissions ==
    UNION {{SubSeq(f, 1, k - 1) \o SubSeq(f, k + 1, Len(f)) : k \in 1..Len(f)} :
             f \in Factors}

TokenInputs ==
    AllSeqs \cup Chains \cup MinusForms \cup Truncations \cup Omissions \cup ShortPowCalls

Chunks ==
    { <<" ">>, <<"1">>, <<"0">>, <<".">>, <<"+">>, <<"-">>, <<"(">>, <<")">>, <<",">>,
      <<"s", "i", "n">>, <<"a">>, <<"x">>, <<"X">>, <<"#">> }

ChunkTexts == {Concat(cs) : cs \in UNION {[1..k -> Chunks] : k \in 0..MaxChunks}}

\* the expressions of the documentation and of the tests
Examples ==
    { <<"8", " ", "-", " ", "3", " ", "-", " ", "2">>,
      <<"2", " ", "+", " ", "3", " ", "*", " ", "4">>,
      <<"(", "2", " ", "+", " ", "3", ")", " ", "*", " ", "4">>,
      <<"2", " ", "+", " ", "3", " ", "*", " ", "4", " ", "-", " ", "1", "0", " ", "/", " ", "5">>,
      <<"-", " ", "-", " ", "3">>,
      <<"s", "i", "n", " ", "0", ".", "5">>,
      <<"s", "i", "n", "(", "0", ".", "5", ")">>,
      <<"s", "i", "n", "(", "0", ")">>,
      <<"p", "o", "w", "(", "2", ",", " ", "1", "0", ")">>,
      <<"p", "o", "w", "(", "2", " ", "3", ")">>,
      <<"p", "o", "w", "(", "2", ",", " ", "3", ")">>,
      <<"p", "o", "w", "(", "2", " ", "+", " ", "3", ",", " ", "4", " ", "-", " ", "1", ")">>,
      <<"1", " ", "/", " ", "(", "2", " ", "-", " ", "2", ")">>,
      <<"f", "o", "o", "(", "1", ")">>,
      <<"s", "a", "a", "d", "(", "1", "0", ")">>,
      <<"1", " ", "#", " ", "2">>,
      <<"1", "0", " ", "#", " ", "5">>,
      <<"1", " ", "+", " ", "(", "2", " ", "*", " ", "3">>,
      <<"1", " ", "2">>,
      <<"1", " ", ")">>,
      <<"2", " ", "3", " ", "+">>,
      <<"-", "2", ".", "0">>,
      <<"-", "2", " ", "*", " ", "3">>,
      <<"2", " ", "*", " ", "-", "3">>,
      <<"4", "2">>,
      <<"s", "q", "r", "t", "(", "1", "6", ")", " ", "/", " ", "2">>,
      <<"s", "i", "n", "(", "c", "o", "s", "(", "t", "a", "n", "(", "0", ".", "5", ")", ")", ")">>,
      <<"1", " ", "+", " ", "(", "2", " ", "*", " ", "3", " ", "-", " ", "1", "0", ".", "5", ")",
        " ", "/", " ", "s", "i", "n", "(", "0", ".", "5", ")">>,
      <<"s", "i", "n", "X", "(", "1", ")">>,
      <<"f", "o", "o", "X", "(", "1", ")">>,
      <<"1", ".", "2", ".", "3">> }

Inputs == Examples \cup ChunkTexts \cup {Render(ts) : ts \in TokenInputs}

(***************************************************************************)
(* main                                                                    *)
(***************************************************************************)
NotLexed == LexPanic("", <<>>)

NotParsed == PErr("", 0)

NotEvaluated == EErr("")

Init ==
    /\ pc = "start"
    /\ input \in Inputs
    /\ lexed = NotLexed
    /\ parsed = NotParsed
    /\ result = NotEvaluated

\* let tokens = lexer::tokenize(expression): a panic ends the process
Tokenize ==
    /\ pc = "start"
    /\ lexed' = tokenize(input)
    /\ pc' = IF lexed'.kind = "ok" THEN "lexed" ELSE "panicked"
    /\ UNCHANGED <<input, parsed, result>>

\* parser::parse(&tokens): Err prints the message and exits with status 1
Parse ==
    /\ pc = "lexed"
    /\ parsed' = parse(lexed.tokens)
    /\ pc' = IF parsed'.ok THEN "parsed" ELSE "exit"
    /\ UNCHANGED <<input, lexed, result>>

\* evaluator::evaluate(ast): the value is printed, Err exits with status 1
Evaluate ==
    /\ pc = "parsed"
    /\ \E zeroUntracked \in BOOLEAN : result' = evaluate(parsed.expr, zeroUntracked)
    /\ pc' = "done"
    /\ UNCHANGED <<input, lexed, parsed>>

Next == Tokenize \/ Parse \/ Evaluate

Spec == Init /\ [][Next]_vars

(***************************************************************************)
(* Properties                                                              *)
(***************************************************************************)
\* tokenize has just returned or panicked
Lexed == pc \in {"lexed", "panicked"}

\* parse has just returned
Parsed == pc \in {"parsed", "exit"}

Tokens == lexed.tokens

IsNum(t) == t.type = "Number"

Additive == {"Plus", "Minus"}

Multiplicative == {"Multiply", "Divide"}

\* t1 op1 t2 ... tn with numbers t and operators drawn from `level`
IsChain(ts, level) ==
    /\ Len(ts) % 2 = 1
    /\ \A i \in 1..Len(ts) :
         IF i % 2 = 1 THEN IsNum(ts[i]) ELSE ts[i].type \in level

\* ((t1 op1 t2) op2 t3) ...
LeftFold(ts) ==
    IF Len(ts) = 1 THEN ENumber(ts[1].val)
    ELSE BinaryOp(LeftFold(SubSeq(ts, 1, Len(ts) - 2)), ts[Len(ts) - 1].type,
                  ENumber(ts[Len(ts)].val))

IntOf(t) == t.val[1]

\* C1: a chain of numbers joined by operators of one precedence level parses to
\* the left-folded tree, with every token consumed; a - b - c evaluates to
\* (a - b) - c and a / b / c to (a / b) / c (DivisionByZero when b or c is 0).
C1_LeftAssociative ==
    /\ (Parsed /\ (IsChain(Tokens, Additive) \/ IsChain(Tokens, Multiplicative)))
         => parsed = POk(LeftFold(Tokens), Len(Tokens) + 1)
    /\ (pc = "done" /\ Len(Tokens) = 5 /\ IsChain(Tokens, {"Minus"})
          /\ \A i \in {1, 3, 5} : Tokens[i].val[2] = 1)
         => result = EOk(<<(IntOf(Tokens[1]) - IntOf(Tokens[3])) - IntOf(Tokens[5]), 1>>)
    /\ (pc = "done" /\ Len(Tokens) = 5 /\ IsChain(Tokens, {"Divide"})
          /\ \A i \in {1, 3, 5} : Tokens[i].val[2] = 1)
         => IF IntOf(Tokens[3]) = 0 \/ IntOf(Tokens[5]) = 0
            THEN result = EErr("DivisionByZero")
            ELSE /\ result.ok
                 /\ result.val[2] # 0
                 /\ result.val[1] * IntOf(Tokens[3]) * IntOf(Tokens[5])
                      = IntOf(Tokens[1]) * result.val[2]

\* "8 - 3 - 2" has been evaluated, to 3
C1_Witness ==
    /\ pc = "done"
    /\ input = <<"8", " ", "-", " ", "3", " ", "-", " ", "2">>
    /\ parsed.expr = BinaryOp(BinaryOp(ENumber(<<8, 1>>), "Minus", ENumber(<<3, 1>>)),
                               "Minus", ENumber(<<2, 1>>))
    /\ result = EOk(<<3, 1>>)

Subtrees(e) ==
    CASE e.node = "BinaryOp" -> {e} \cup Subtrees(e.left) \cup Subtrees(e.right)
      [] e.node = "UnaryOp" -> {e} \cup Subtrees(e.expr)
      [] OTHER -> {e}

IsBinary(e, ops) == e.node = "BinaryOp" /\ e.op \in ops

Is3(ts, t1, t2) ==
    /\ Len(ts) = 5
    /\ IsNum(ts[1]) /\ IsNum(ts[3]) /\ IsNum(ts[5])
    /\ ts[2].type \in t1
    /\ ts[4].type \in t2

N(ts, i) == ENumber(ts[i].val)

\* C2: '*' and '/' bind tighter than '+' and '-': a + b * c parses as a + (b * c),
\* a * b + c as (a * b) + c, a parenthesized sum is one factor of a product, and
\* without parentheses no product or quotient has a sum or difference as operand;
\* 2 + 3 * 4 is 14, (2 + 3) * 4 is 20, 2 + 3 * 4 - 10 / 5 is 12.
C2_Precedence ==
    /\ (Parsed /\ Is3(Tokens, Additive, Multiplicative))
         => parsed = POk(BinaryOp(N(Tokens, 1), Tokens[2].type,
                                   BinaryOp(N(Tokens, 3), Tokens[4].type, N(Tokens, 5))), 6)
    /\ (Parsed /\ Is3(Tokens, Multiplicative, Additive))
         => parsed = POk(BinaryOp(BinaryOp(N(Tokens, 1), Tokens[2].type, N(Tokens, 3)),
                                   Tokens[4].type, N(Tokens, 5)), 6)
    /\ (Parsed /\ Len(Tokens) = 7 /\ Tokens[1].type = "LeftParen"
          /\ Is3(SubSeq(Tokens, 2, 6), Additive, {"RightParen"})
          /\ Tokens[6].type \in Multiplicative /\ IsNum(Tokens[7]))
         => parsed = POk(BinaryOp(BinaryOp(N(Tokens, 2), Tokens[3].type, N(Tokens, 4)),
                                   Tokens[6].type, N(Tokens, 7)), 8)
    /\ (Parsed /\ Len(Tokens) = 7 /\ IsNum(Tokens[1]) /\ Tokens[2].type \in Multiplicative
          /\ Tokens[3].type = "LeftParen" /\ IsNum(Tokens[4]) /\ Tokens[5].type \in Additive
          /\ IsNum(Tokens[6]) /\ Tokens[7].type = "RightParen")
         => parsed = POk(BinaryOp(N(Tokens, 1), Tokens[2].type,
                                   BinaryOp(N(Tokens, 4), Tokens[5].type, N(Tokens, 6))), 8)
    /\ (Parsed /\ parsed.ok /\ \A i \in 1..Len(Tokens) : Tokens[i].type # "LeftParen")
         => \A e \in Subtrees(parsed.expr) :
              IsBinary(e, Multiplicative)
                => ~IsBinary(e.left, Additive) /\ ~IsBinary(e.right, Additive)
    /\ (pc = "done" /\ input = <<"2", " ", "+", " ", "3", " ", "*", " ", "4">>)
         => result = EOk(<<14, 1>>)
    /\ (pc = "done" /\ input = <<"(", "2", " ", "+", " ", "3", ")", " ", "*", " ", "4">>)
         => result = EOk(<<20, 1>>)
    /\ (pc = "done"
          /\ input = <<"2", " ", "+", " ", "3", " ", "*", " ", "4", " ", "-", " ",
                        "1", "0", " ", "/", " ", "5">>)
         => result = EOk(<<12, 1>>)

\* "(2 + 3) * 4" has been evaluated, to 20
C2_Witness ==
    /\ pc = "done"
    /\ input = <<"(", "2", " ", "+", " ", "3", ")", " ", "*", " ", "4">>
    /\ parsed.expr = BinaryOp(BinaryOp(ENumber(<<2, 1>>), "Plus", ENumber(<<3, 1>>)),
                               "Multiply", ENumber(<<4, 1>>))
    /\ result = EOk(<<20, 1>>)

\* the comparison right_val == 0.0 as the claim reads it
ExactlyZero(v, zeroUntracked) == IF v[2] = 0 THEN zeroUntracked ELSE v[1] = 0

ZeroDivisorIn(ast, zeroUntracked) ==
    \E d \in Subtrees(ast) :
       /\ IsBinary(d, {"Divide"})
       /\ LET r == evaluate(d.right, zeroUntracked)
          IN  r.ok /\ ExactlyZero(r.val, zeroUntracked)

\* C3: the evaluation of a tree ends in DivisionByZero exactly when some Divide
\* node of it has a right child that evaluates to zero, however deep the node
\* and whatever its left value; a / (b - c) is DivisionByZero when b = c and the
\* quotient a / (b - c) otherwise.
C3_DivisionByZero ==
    /\ pc = "done"
         => \A z \in BOOLEAN :
              result = evaluate(parsed.expr, z)
                => (result = EErr("DivisionByZero") <=> ZeroDivisorIn(parsed.expr, z))
    /\ (pc = "done" /\ Len(Tokens) = 7 /\ IsNum(Tokens[1]) /\ Tokens[2].type = "Divide"
          /\ Tokens[3].type = "LeftParen" /\ IsNum(Tokens[4]) /\ Tokens[5].type = "Minus"
          /\ IsNum(Tokens[6]) /\ Tokens[7].type = "RightParen"
          /\ \A i \in {1, 4, 6} : Tokens[i].val[2] = 1)
         => IF IntOf(Tokens[4]) = IntOf(Tokens[6])
            THEN result = EErr("DivisionByZero")
            ELSE /\ result.ok
                 /\ result.val[2] # 0
                 /\ result.val[1] * (IntOf(Tokens[4]) - IntOf(Tokens[6]))
                      = IntOf(Tokens[1]) * result.val[2]

\* "1 / (2 - 2)" has been evaluated, to the DivisionByZero error
C3_Witness ==
    /\ pc = "done"
    /\ input = <<"1", " ", "/", " ", "(", "2", " ", "-", " ", "2", ")">>
    /\ parsed.expr.op = "Divide"
    /\ result = EErr("DivisionByZero")

\* C4: parse returns a tree only when it has consumed the whole token sequence;
\* tokens left over after a complete expression are a syntax error.
C4_TrailingTokensRejected ==
    (Parsed /\ parsed.ok) => parsed.pos = Len(Tokens) + 1

\* A reading of the grammar of parser.rs as a pushdown recognizer, token by
\* token: mode is what may come next (an operand, the '(' of a call, or what
\* may follow an operand), stack the open parentheses, innermost first.
Dead == [viable |-> FALSE, mode |-> "", stack |-> <<>>]

Scan(ts, i, mode, stack) ==
    IF i > Len(ts) THEN [viable |-> TRUE, mode |-> mode, stack |-> stack]
    ELSE LET t == ts[i].type IN
      CASE mode = "operand" /\ t = "Number" -> Scan(ts, i + 1, "after", stack)
        [] mode = "operand" /\ t = "Minus" -> Scan(ts, i + 1, "operand", stack)
        [] mode = "operand" /\ t = "LeftParen" ->
             Scan(ts, i + 1, "operand", <<"group">> \o stack)
        [] mode = "operand" /\ t \in {"Cos", "Acos", "Sin", "Asin", "Tan", "Atan", "Sqrt"} ->
             Scan(ts, i + 1, "call", stack)
        [] mode = "operand" /\ t = "Pow" -> Scan(ts, i + 1, "powcall", stack)
        [] mode = "call" /\ t = "LeftParen" ->
             Scan(ts, i + 1, "operand", <<"call">> \o stack)
        [] mode = "powcall" /\ t = "LeftParen" ->
             Scan(ts, i + 1, "operand", <<"pow1">> \o stack)
        [] mode = "after" /\ t \in Additive \cup Multiplicative ->
             Scan(ts, i + 1, "operand", stack)
        [] mode = "after" /\ t = "RightParen" /\ stack # <<>>
             /\ Head(stack) \in {"group", "call", "pow2"} ->
             Scan(ts, i + 1, "after", Tail(stack))
        [] mode = "after" /\ t = "Comma" /\ stack # <<>> /\ Head(stack) = "pow1" ->
             Scan(ts, i + 1, "operand", <<"pow2">> \o Tail(stack))
        [] OTHER -> Dead

Recognize(ts) == Scan(ts, 1, "operand", <<>>)

Complete(ts) ==
    LET s == Recognize(ts) IN s.viable /\ s.mode = "after" /\ s.stack = <<>>

\* the sequence fits the grammar as far as it goes, and the grammar wants more
Truncated(ts) == Recognize(ts).viable /\ ~Complete(ts)

\* what the grammar wants where the sequence ends
ExpectedAtEnd(ts) ==
    LET s == Recognize(ts) IN
    CASE s.mode = "operand" -> "Unexpected end of input"
      [] s.mode \in {"call", "powcall"} -> "Expected left parenthese"
      [] s.mode = "after" /\ Head(s.stack) = "pow1" -> "Expected comma"
      [] OTHER -> "Expected right parenthese"

\* C5 as stated: every truncated sequence fails with "Unexpected end of input".
C5_AlwaysEndOfInput ==
    (Parsed /\ Truncated(Tokens))
      => ~parsed.ok /\ parsed.expr = NoExpr /\ parsed.err = "Unexpected end of input"

\* C5 amended: a sequence that ends before the grammar is satisfied never gives
\* a tree; the syntax error names what was expected where the input ended:
\* "Unexpected end of input" where an operand is due (empty input, after a
\* binary operator, a unary minus, a '(' or the comma of pow), "Expected left
\* parenthese" after a function keyword, "Expected comma" after the first
\* argument of pow, "Expected right parenthese" at an unclosed parenthesis.
C5_TruncatedInput ==
    (Parsed /\ Truncated(Tokens))
      => ~parsed.ok /\ parsed.expr = NoExpr /\ parsed.err = ExpectedAtEnd(Tokens)

\* "1 + (2 * 3" has been parsed: the error names the missing parenthesis
C5_Witness ==
    /\ pc = "exit"
    /\ input = <<"1", " ", "+", " ", "(", "2", " ", "*", " ", "3">>
    /\ Truncated(Tokens)
    /\ parsed = PErr("Expected right parenthese", 7)

FunctionTypes == {"Cos", "Acos", "Sin", "Asin", "Tan", "Atan", "Sqrt", "Pow"}

\* positions i < j < k of a pow, its '(' at i + 1, a ',' and a ')' after it
PowShapeAt(ts, i) ==
    /\ TypeAt(ts, i + 1) = "LeftParen"
    /\ \E j \in (i + 3)..Len(ts), k \in (i + 5)..Len(ts) :
         j < k /\ ts[j].type = "Comma" /\ ts[k].type = "RightParen"

\* pow ( e1 , e2 ) with complete expressions e1 and e2, split at comma j
IsPowCall(ts, j) ==
    /\ Len(ts) >= 6
    /\ ts[1].type = "Pow" /\ ts[2].type = "LeftParen"
    /\ ts[j].type = "Comma" /\ ts[Len(ts)].type = "RightParen"
    /\ Complete(SubSeq(ts, 3, j - 1))
    /\ Complete(SubSeq(ts, j + 1, Len(ts) - 1))

\* C8: a tree is returned only if every pow token of the sequence stands in the
\* shape pow ( expression , expression ); that shape parses to BinaryOp(first
\* argument, Pow, second argument); and a first argument followed by a token
\* that is not a comma fails with "Expected comma".
C8_PowShape ==
    /\ (Parsed /\ parsed.ok)
         => \A i \in 1..Len(Tokens) : Tokens[i].type = "Pow" => PowShapeAt(Tokens, i)
    /\ Parsed
         => \A j \in 4..(Len(Tokens) - 2) :
              IsPowCall(Tokens, j)
                => parsed.ok
                   /\ parsed.expr
                        = BinaryOp(parse(SubSeq(Tokens, 3, j - 1)).expr, "Pow",
                                   parse(SubSeq(Tokens, j + 1, Len(Tokens) - 1)).expr)
    /\ Parsed
         => \A j \in 4..Len(Tokens) :
              (/\ Tokens[1].type = "Pow" /\ Tokens[2].type = "LeftParen"
               /\ Complete(SubSeq(Tokens, 3, j - 1))
               /\ Tokens[j].type \notin {"Comma"} \cup Additive \cup Multiplicative)
                => parsed.err = "Expected comma"

\* C9: a function keyword that is not followed at once by '(' makes parse fail,
\* wherever it stands; f ( expression ) for a unary function f parses to
\* UnaryOp(f, expression).
C9_FunctionNeedsParen ==
    /\ Parsed
         => \A i \in 1..Len(Tokens) :
              (Tokens[i].type \in FunctionTypes /\ TypeAt(Tokens, i + 1) # "LeftParen")
                => ~parsed.ok
    /\ (Parsed /\ Len(Tokens) >= 4 /\ Tokens[1].type \in FunctionTypes \ {"Pow"}
          /\ Tokens[2].type = "LeftParen" /\ Tokens[Len(Tokens)].type = "RightParen"
          /\ Complete(SubSeq(Tokens, 3, Len(Tokens) - 1)))
         => parsed = POk(UnaryOp(Tokens[1].type,
                                  parse(SubSeq(Tokens, 3, Len(Tokens) - 1)).expr),
                          Len(Tokens) + 1)

\* the number of '-' tokens in a row from position i on
LeadingMinuses(ts, i) ==
    IF TypeAt(ts, i) = "Minus" THEN 1 + LeadingMinuses(ts, i + 1) ELSE 0

\* k negations around e
Nest(k, e) == IF k = 0 THEN e ELSE UnaryOp("Minus", Nest(k - 1, e))

Sign(k) == IF k % 2 = 0 THEN 1 ELSE -1

\* C10: '-' where a factor is due negates exactly the next factor: j minus signs
\* before a number give j nested UnaryOp(Minus) nodes, and in
\* -..- a op -..- b each operand of op is the negated number alone, for every
\* binary operator op ("-2 * 3" is (-2) * 3, "2 * -3" is 2 * (-3)); j
\* negations of n evaluate to n or -n by the parity of j ("- - 3" to 3).
C10_UnaryMinus ==
    LET j == LeadingMinuses(Tokens, 1)
        k == LeadingMinuses(Tokens, j + 3)
    IN  /\ (Parsed /\ Len(Tokens) = j + 1 /\ IsNum(Tokens[j + 1]))
             => parsed = POk(Nest(j, N(Tokens, j + 1)), Len(Tokens) + 1)
        /\ (Parsed /\ Len(Tokens) = j + k + 3 /\ IsNum(Tokens[j + 1])
              /\ Tokens[j + 2].type \in Additive \cup Multiplicative
              /\ IsNum(Tokens[j + k + 3]))
             => parsed = POk(BinaryOp(Nest(j, N(Tokens, j + 1)), Tokens[j + 2].type,
                                       Nest(k, N(Tokens, j + k + 3))),
                              Len(Tokens) + 1)
        /\ (pc = "done" /\ Len(Tokens) = j + 1 /\ IsNum(Tokens[j + 1]))
             => result = EOk(<<Sign(j) * Tokens[j + 1].val[1], Tokens[j + 1].val[2]>>)

\* "-2 * 3" has been parsed, to (-2) * 3
C10_Witness ==
    /\ pc = "done"
    /\ input = <<"-", "2", " ", "*", " ", "3">>
    /\ parsed.expr = BinaryOp(UnaryOp("Minus", ENumber(<<2, 1>>)), "Multiply",
                               ENumber(<<3, 1>>))
    /\ result = EOk(<<-6, 1>>)

Uppercase ==
    {"A", "B", "C", "D", "E", "F", "G", "H", "I", "J", "K", "L", "M",
     "N", "O", "P", "Q", "R", "S", "T", "U", "V", "W", "X", "Y", "Z"}

\* the letters an identifier goes on with: lowercase ones as the claim states
\* it (asStated), any letter as amended
Continues(c, asStated) ==
    IF asStated THEN c \in Lowercase ELSE c \in Lowercase \cup Uppercase

LetterRunEnd(text, i, asStated) ==
    IF i < Len(text) /\ Continues(text[i + 1], asStated)
    THEN LetterRunEnd(text, i + 1, asStated)
    ELSE i

\* an identifier starts at i: a lowercase letter not continuing a run
StartsIdentifier(text, i, asStated) ==
    text[i] \in Lowercase /\ (i = 1 \/ ~Continues(text[i - 1], asStated))

FunctionOf(w) ==
    CASE w = <<"c", "o", "s">> -> "Cos"
      [] w = <<"s", "i", "n">> -> "Sin"
      [] w = <<"t", "a", "n">> -> "Tan"
      [] w = <<"a", "c", "o", "s">> -> "Acos"
      [] w = <<"a", "s", "i", "n">> -> "Asin"
      [] w = <<"a", "t", "a", "n">> -> "Atan"
      [] w = <<"s", "q", "r", "t">> -> "Sqrt"
      [] w = <<"p", "o", "w">> -> "Pow"
      [] OTHER -> ""

\* the outcome of a text made of a part scanned to `pre`, then `mid` tokens,
\* then a part scanned to `post`
Joined(pre, mid, post) ==
    IF pre.kind # "ok" THEN pre
    ELSE IF post.kind # "ok" THEN post
    ELSE LexOk(pre.tokens \o mid \o post.tokens)

\* every identifier the scan reaches is one run of letters: a function name
\* gives its one token and the scan goes on behind the run, any other run
\* ends the scan with UnknownIdentifier carrying the run
IdentifierLaw(asStated) ==
    Lexed =>
      \A i \in 1..Len(input) :
        (StartsIdentifier(input, i, asStated)
           /\ tokenize(SubSeq(input, 1, i - 1)).kind = "ok")
          => LET e == LetterRunEnd(input, i, asStated)
                 w == SubSeq(input, i, e)
             IN  lexed = IF FunctionOf(w) # ""
                         THEN Joined(tokenize(SubSeq(input, 1, i - 1)),
                                     <<[type |-> FunctionOf(w), val |-> <<0, 1>>]>>,
                                     tokenize(SubSeq(input, e + 1, Len(input))))
                         ELSE [kind |-> "UnknownIdentifier", tokens |-> <<>>, detail |-> w]

\* C6 as stated: the identifier is the maximal run of lowercase letters.
C6_LowercaseRun == IdentifierLaw(TRUE)

\* C6 amended: an identifier starts at a lowercase letter and runs over every
\* alphabetic character that follows, of either case; the run is matched
\* case-sensitively against {cos, sin, tan, acos, asin, atan, sqrt, pow}: a match
\* yields exactly that function token, any other run fails with
\* UnknownIdentifier carrying the whole run ("foo" for "foo(1)", "sinX" for
\* "sinX(1)"), and no token sequence is returned.
C6_Identifier == IdentifierLaw(FALSE)

\* "foo(1)" has been scanned: UnknownIdentifier carrying "foo"
C6_Witness ==
    /\ pc = "panicked"
    /\ input = <<"f", "o", "o", "(", "1", ")">>
    /\ lexed = [kind |-> "UnknownIdentifier", tokens |-> <<>>, detail |-> <<"f", "o", "o">>]

\* a character no token can hold where it stands
BadAt(text, i, asStated) ==
    LET c == text[i] IN
    /\ c \notin {" ", "+", "-", "*", "/", "(", ")", ","}
    /\ c \notin Digits \cup Lowercase
    /\ ~(c = "." /\ i > 1 /\ text[i - 1] \in Digits \cup {"."})
    /\ asStated \/ ~(c \in Uppercase /\ i > 1 /\ text[i - 1] \in Lowercase \cup Uppercase)

HasBad(text, asStated) == \E i \in 1..Len(text) : BadAt(text, i, asStated)

FirstBad(text, asStated) ==
    CHOOSE i \in 1..Len(text) :
      BadAt(text, i, asStated) /\ \A j \in 1..(i - 1) : ~BadAt(text, j, asStated)

\* a space separates what is before it from what is after it and adds no
\* token; the first bad character the scan reaches ends it with
\* InvalidCharacter carrying that character and no tokens, and InvalidCharacter
\* never carries anything else
CharacterLaw(asStated) ==
    Lexed =>
      /\ \A i \in 1..Len(input) :
           input[i] = " "
             => lexed = Joined(tokenize(SubSeq(input, 1, i - 1)), <<>>,
                               tokenize(SubSeq(input, i + 1, Len(input))))
      /\ (HasBad(input, asStated)
            /\ tokenize(SubSeq(input, 1, FirstBad(input, asStated) - 1)).kind = "ok")
           => lexed = [kind |-> "InvalidCharacter", tokens |-> <<>>,
                       detail |-> <<input[FirstBad(input, asStated)]>>]
      /\ lexed.kind = "InvalidCharacter"
           => /\ HasBad(input, asStated)
              /\ lexed.detail = <<input[FirstBad(input, asStated)]>>
              /\ lexed.tokens = <<>>

\* C7 as stated: every letter that is not lowercase is an invalid character.
C7_AnyOtherCharacter == CharacterLaw(TRUE)

\* C7 amended: spaces are skipped without a token, and the scan fails with
\* InvalidCharacter carrying the character, returning no tokens, on the first
\* character that is neither a space, a digit (or '.' inside a numeral), one of
\* + - * / ( ) , a lowercase letter, nor a letter of any case directly after
\* another letter (that one belongs to the identifier before it).
C7_InvalidCharacter == CharacterLaw(FALSE)

\* "1 # 2" has been scanned: InvalidCharacter carrying '#', no tokens
C7_Witness ==
    /\ pc = "panicked"
    /\ input = <<"1", " ", "#", " ", "2">>
    /\ lexed = [kind |-> "InvalidCharacter", tokens |-> <<>>, detail |-> <<"#">>]

(***************************************************************************)
(* Arity of the operators in a parsed tree                                 *)
(***************************************************************************)
BinaryOperators == {"Plus", "Minus", "Multiply", "Divide", "Pow"}

UnaryOperators == {"Minus", "Cos", "Acos", "Sin", "Asin", "Tan", "Atan", "Sqrt"}

WellFormed(e) ==
    /\ e.node = "BinaryOp" => e.op \in BinaryOperators
    /\ e.node = "UnaryOp" => e.op \in UnaryOperators

\* C11: every BinaryOp node of a tree returned by parse holds Plus, Minus,
\* Multiply, Divide or Pow and every UnaryOp node holds Minus, Cos, Acos, Sin,
\* Asin, Tan, Atan or Sqrt; evaluate applied to that tree never returns
\* InvalidOperation: it returns a value or DivisionByZero.
C11_ArityInvariant ==
    /\ (pc \in {"parsed", "done"} /\ parsed.ok)
         => \A e \in Subtrees(parsed.expr) : WellFormed(e)
    /\ pc = "done"
         => \/ result.ok
            \/ ~result.ok /\ result.err = "DivisionByZero"

\* "pow(2 + 3, 4 - 1)" has been parsed and evaluated: Pow over Plus and Minus, 125
C11_Witness ==
    /\ pc = "done"
    /\ input = <<"p", "o", "w", "(", "2", " ", "+", " ", "3", ",", " ", "4", " ", "-", " ", "1", ")">>
    /\ parsed.expr = BinaryOp(BinaryOp(ENumber(<<2, 1>>), "Plus", ENumber(<<3, 1>>)), "Pow", BinaryOp(ENumber(<<4, 1>>), "Minus", ENumber(<<1, 1>>)))
    /\ result = EOk(<<125, 1>>)

====
